---- MODULE Spec2Model ----
(***************************************************************************)
(* Model of src/streamlit_app.py: a Streamlit script that is executed top  *)
(* to bottom once at startup and once more after every change of the year  *)
(* range slider.  One script run is the sequence of steps                   *)
(*   load_data -> year_range -> filter -> Key Metrics -> trend line ->      *)
(*   insights                                                               *)
(* and stops at the first uncaught exception.                               *)
(*                                                                          *)
(* Numbers.  The two indicator columns are held as integers counting        *)
(* tenths (440.0 is 4400).  Statistics are exact rationals, kept as the     *)
(* integer sums they are quotients of, so that no intermediate product      *)
(* leaves the 32-bit integer range; NaN is the record field nan = TRUE.    *)
(***************************************************************************)
EXTENDS Integers, Sequences, FiniteSets, TLC

VARIABLES
    source,       \* the SQLite file the script reads (never written)
    cache,        \* st.cache_data's store for load_data()
    widget,       \* the slider's session state (survives reruns)
    pc,           \* position of the running script
    df,           \* script variable df
    year_range,   \* script variable year_range
    filtered_df,  \* script variable filtered_df
    stats,        \* the values the Key Metrics block computes inline
    correlation,  \* script variable correlation
    z,            \* script variable z (np.polyfit's result)
    shown,        \* the texts handed to the page so far in this run
    error         \* the uncaught exception that ended this run, if any

vars == <<source, cache, widget, pc, df, year_range, filtered_df, stats,
          correlation, z, shown, error>>

(***************************************************************************)
(* Bounds of the enumerated data sources.                                   *)
(***************************************************************************)
NumYears == 3
MaxLen == 3
MaxVal == 2

FirstYear == 2017
Years == FirstYear..(FirstYear + NumYears - 1)
Vals == {10 * k : k \in 1..MaxVal}

Columns == {"year", "total_co2_emissions", "pct_unable_to_afford_diet"}

Rec(y, c, d) ==
    [year |-> y, total_co2_emissions |-> c, pct_unable_to_afford_diet |-> d]

(***************************************************************************)
(* Sequence helpers.                                                        *)
(***************************************************************************)
RECURSIVE SeqSum(_)
SeqSum(s) == IF s = <<>> THEN 0 ELSE s[1] + SeqSum(Tail(s))

Col(frame, name) == [i \in 1..Len(frame) |-> frame[i][name]]

Dot(s, t) == SeqSum([i \in 1..Len(s) |-> s[i] * t[i]])

SetMin(S) == CHOOSE m \in S : \A x \in S : m <= x
SetMax(S) == CHOOSE m \in S : \A x \in S : m >= x

(***************************************************************************)
(* The data sources the script is started on.  A table is a set of rows     *)
(* with distinct years; the rows of a table may leave gaps between years.   *)
(* One-row tables are left out: they would give the slider min_value =      *)
(* max_value, and what the widget does then is not decided by this          *)
(* repository.  A one-record view is reached by narrowing the range.        *)
(***************************************************************************)
Tables ==
    UNION { { { Rec(y, f[y][1], f[y][2]) : y \in Y } : f \in [Y -> Vals \X Vals] }
            : Y \in { S \in SUBSET Years :
                          Cardinality(S) <= MaxLen /\ Cardinality(S) # 1 } }

\* The seven yearly records of the repository's sample, to one decimal.
SampleData ==
    { Rec(2017, 4400, 608), Rec(2018, 4346, 602), Rec(2019, 4641, 602),
      Rec(2020, 4341, 618), Rec(2021, 4259, 611), Rec(2022, 4053, 610),
      Rec(2023, 4019, 617) }

\* y = 2x + 3 for x = 1, 2, 3, 4, 5 (x is the CO2 column, y the diet column).
LinearData == { Rec(2016 + x, 10 * x, 20 * x + 30) : x \in 1..5 }

Sources ==
    { [db |-> "unreachable", columns |-> {}, rows |-> {}],
      [db |-> "no_table", columns |-> {}, rows |-> {}] }
    \cup { [db |-> "ok", columns |-> Columns, rows |-> t]
           : t \in Tables \cup {SampleData, LinearData} }
    \cup { [db |-> "ok", columns |-> Columns \ {c}, rows |-> LinearData]
           : c \in Columns }

(***************************************************************************)
(* load_data: SELECT * FROM environmental_social_data ORDER BY year.        *)
(***************************************************************************)
RECURSIVE OrderByYear(_)
OrderByYear(rows) ==
    IF rows = {} THEN <<>>
    ELSE LET first == CHOOSE r \in rows : \A q \in rows : r.year <= q.year
         IN  <<first>> \o OrderByYear(rows \ {first})

\* The exception load_data() raises on this source, "none" when it returns.
LoadError(src) ==
    IF src.db = "unreachable" THEN "OperationalError"
    ELSE IF src.db = "no_table" THEN "DatabaseError"
    ELSE IF "year" \notin src.columns THEN "DatabaseError"
    ELSE "none"

(***************************************************************************)
(* Year range selector: the slider's bounds and its default value.          *)
(***************************************************************************)
MinYear(frame) == SetMin({ frame[i].year : i \in 1..Len(frame) })
MaxYear(frame) == SetMax({ frame[i].year : i \in 1..Len(frame) })

\* Two independent handles: the pair is not kept ordered.
SliderValuesUnordered(lo, hi) == (lo..hi) \X (lo..hi)

\* The pairs the slider lets the user select between its two bounds.
SliderValues(lo, hi) == { <<a, b>> \in (lo..hi) \X (lo..hi) : a <= b }

(***************************************************************************)
(* Filter data based on selection.                                          *)
(***************************************************************************)
\* The comparison with an exclusive upper bound.
InRangeOpenAbove(r, range) == r.year >= range[1] /\ r.year < range[2]

\* The comparison with an exclusive lower bound.
InRangeOpenBelow(r, range) == r.year > range[1] /\ r.year <= range[2]

InRange(r, range) == r.year >= range[1] /\ r.year <= range[2]

Filter(frame, range) == SelectSeq(frame, LAMBDA r : InRange(r, range))

(***************************************************************************)
(* Statistics.  NaN is nan = TRUE; a defined value keeps its exact parts.   *)
(***************************************************************************)
\* A mean whose sum starts at the second entry.
MeanSkipFirst(series) ==
    [nan |-> Len(series) = 0,
     sum |-> IF series = <<>> THEN 0 ELSE SeqSum(Tail(series)),
     n |-> Len(series)]

\* Series.mean(): sum / n, NaN on an empty series.
Mean(series) ==
    [nan |-> Len(series) = 0, sum |-> SeqSum(series), n |-> Len(series)]

\* Series.pct_change().mean(): the mean of (x[i] - x[i-1]) / x[i-1] over the
\* n - 1 changes; the first entry of pct_change() is NaN and mean() skips it.
PctChangeMean(series) ==
    [nan |-> Len(series) < 2,
     changes |-> [i \in 1..(Len(series) - 1) |->
                     <<series[i + 1] - series[i], series[i]>>]]

\* n^2 times the (population) covariance of two series of length n.
Cov(x, y) == Len(x) * Dot(x, y) - SeqSum(x) * SeqSum(y)

\* Series.corr(): Pearson r = cov / sqrt(varx * vary); NaN when fewer than
\* two points or a zero variance (0/0).
Corr(x, y) ==
    LET undefined == Len(x) < 2 \/ Cov(x, x) = 0 \/ Cov(y, y) = 0
    IN  [nan |-> undefined,
         cov |-> IF undefined THEN 0 ELSE Cov(x, y),
         varx |-> IF undefined THEN 0 ELSE Cov(x, x),
         vary |-> IF undefined THEN 0 ELSE Cov(y, y)]

\* correlation < 0 (False for NaN).
IsNegative(r) == ~r.nan /\ r.cov < 0

\* The fit with its two arguments exchanged: x as a function of y.
PolyfitSwapped(x, y) ==
    LET n == Len(x)
    IN  IF n = 0 THEN
            [raises |-> TRUE, nan |-> FALSE, rank |-> 0, slopeNum |-> 0,
             slopeDen |-> 1, sx |-> 0, sy |-> 0, n |-> 0]
        ELSE IF Cov(y, y) = 0 THEN
            [raises |-> FALSE, nan |-> FALSE, rank |-> 1,
             slopeNum |-> SeqSum(x), slopeDen |-> 2 * y[1] * n,
             sx |-> SeqSum(y), sy |-> SeqSum(x), n |-> n]
        ELSE
            [raises |-> FALSE, nan |-> FALSE, rank |-> 2,
             slopeNum |-> Cov(y, x), slopeDen |-> Cov(y, y),
             sx |-> SeqSum(y), sy |-> SeqSum(x), n |-> n]

\* np.polyfit(x, y, 1).  An empty x raises TypeError.  With full rank the
\* least-squares line: slope = cov / varx, intercept = (sy - slope * sx) / n.
\* With rank 1 (a single point, or a constant x = c) lstsq returns the
\* minimum-norm solution of the column-scaled system: slope = mean(y) / (2c),
\* intercept = mean(y) / 2, with a RankWarning and no exception.  On finite
\* positive data no coefficient is NaN.  The intercept is kept as its parts:
\* intercept = (sy - slope * sx) / n with full rank, sy / (2n) with rank 1.
Polyfit(x, y) ==
    LET n == Len(x)
    IN  IF n = 0 THEN
            [raises |-> TRUE, nan |-> FALSE, rank |-> 0, slopeNum |-> 0,
             slopeDen |-> 1, sx |-> 0, sy |-> 0, n |-> 0]
        ELSE IF Cov(x, x) = 0 THEN
            [raises |-> FALSE, nan |-> FALSE, rank |-> 1,
             slopeNum |-> SeqSum(y), slopeDen |-> 2 * x[1] * n,
             sx |-> SeqSum(x), sy |-> SeqSum(y), n |-> n]
        ELSE
            [raises |-> FALSE, nan |-> FALSE, rank |-> 2,
             slopeNum |-> Cov(x, y), slopeDen |-> Cov(x, x),
             sx |-> SeqSum(x), sy |-> SeqSum(y), n |-> n]

(***************************************************************************)
(* Formatting.  A text is "nan" when the value is NaN, else the digits of   *)
(* the value rounded to the requested decimals.                             *)
(***************************************************************************)
\* num / den rounded to the nearest integer, ties to even (num >= 0, den > 0).
RoundDiv(num, den) ==
    LET q == num \div den
        r == num % den
    IN  IF 2 * r > den \/ (2 * r = den /\ q % 2 = 1) THEN q + 1 ELSE q

\* f"{mean:.1f}": the mean in tenths, as an integer count of tenths.
FormatMean1(m) ==
    IF m.nan THEN [text |-> "nan", digits |-> 0]
    ELSE [text |-> "number", digits |-> RoundDiv(m.sum, m.n)]

\* f"{mean:.2f}": the mean in hundredths.
FormatMean2(m) ==
    IF m.nan THEN [text |-> "nan", digits |-> 0]
    ELSE [text |-> "number", digits |-> RoundDiv(10 * m.sum, m.n)]

\* f"{v:.1f}" / f"{v:.2f}" of a statistic whose digits the model leaves open.
FormatFloat(v) == IF v.nan THEN "nan" ELSE "number"

Unset == [text |-> "unset", digits |-> 0]

(***************************************************************************)
(* The state of a script run before its first statement.                    *)
(***************************************************************************)
NoStats ==
    [meanCo2 |-> Mean(<<>>), meanDiet |-> Mean(<<>>),
     co2PctChange |-> PctChangeMean(<<>>),
     dietPctChange |-> PctChangeMean(<<>>), count |-> 0]

NoCorrelation == Corr(<<>>, <<>>)

NoFit == Polyfit(<<>>, <<>>)

NothingShown ==
    [avgCo2 |-> Unset, co2Delta |-> "unset",
     avgDiet |-> Unset, dietDelta |-> "unset",
     corrValue |-> "unset", corrLabel |-> "unset",
     dataPoints |-> -1,
     legend |-> "unset",
     insightCorr |-> "unset", insightCo2 |-> Unset, insightDiet |-> Unset]

NoError == [type |-> "none", at |-> "none"]

NoWidget == [rendered |-> FALSE, min |-> 0, max |-> 0, value |-> <<0, 0>>]

FreshRun ==
    /\ df' = <<>>
    /\ year_range' = <<0, 0>>
    /\ filtered_df' = <<>>
    /\ stats' = NoStats
    /\ correlation' = NoCorrelation
    /\ z' = NoFit
    /\ shown' = NothingShown
    /\ error' = NoError

Init ==
    /\ source \in Sources
    /\ cache = [hit |-> FALSE, value |-> <<>>]
    /\ widget = NoWidget
    /\ pc = "load_data"
    /\ df = <<>>
    /\ year_range = <<0, 0>>
    /\ filtered_df = <<>>
    /\ stats = NoStats
    /\ correlation = NoCorrelation
    /\ z = NoFit
    /\ shown = NothingShown
    /\ error = NoError

Raise(type, at) ==
    /\ error' = [type |-> type, at |-> at]
    /\ pc' = "failed"

(***************************************************************************)
(* df = load_data(), behind @st.cache_data: the query runs on the first     *)
(* run only; an exception is not cached.                                    *)
(***************************************************************************)
LoadData ==
    /\ pc = "load_data"
    /\ IF cache.hit THEN
           /\ df' = cache.value
           /\ pc' = "year_range"
           /\ UNCHANGED <<cache, error>>
       ELSE IF LoadError(source) # "none" THEN
           /\ Raise(LoadError(source), "load_data")
           /\ UNCHANGED <<cache, df>>
       ELSE
           /\ df' = OrderByYear(source.rows)
           /\ cache' = [hit |-> TRUE, value |-> OrderByYear(source.rows)]
           /\ pc' = "year_range"
           /\ UNCHANGED error
    /\ UNCHANGED <<source, widget, year_range, filtered_df, stats,
                   correlation, z, shown>>

(***************************************************************************)
(* year_range = st.sidebar.slider(min_value, max_value, value=(min, max)):  *)
(* int(df['year'].min()) raises ValueError on an empty frame (NaN); the     *)
(* slider returns the user's selection, or its default on the first run.    *)
(***************************************************************************)
YearRange ==
    /\ pc = "year_range"
    /\ IF Len(df) = 0 THEN
           /\ Raise("ValueError", "year_range")
           /\ UNCHANGED <<widget, year_range>>
       ELSE
           LET lo == MinYear(df)
               hi == MaxYear(df)
               value == IF widget.rendered THEN widget.value ELSE <<lo, hi>>
           IN  /\ widget' = [rendered |-> TRUE, min |-> lo, max |-> hi,
                             value |-> value]
               /\ year_range' = value
               /\ pc' = "filter"
               /\ UNCHANGED error
    /\ UNCHANGED <<source, cache, df, filtered_df, stats, correlation, z,
                   shown>>

\* A filter that narrows the cached frame itself instead of a copy of it.
FilterDataInPlace ==
    /\ pc = "filter"
    /\ filtered_df' = Filter(df, year_range)
    /\ cache' = [cache EXCEPT !.value = Filter(df, year_range)]
    /\ pc' = "metrics"
    /\ UNCHANGED <<source, widget, df, year_range, stats, correlation, z,
                   shown, error>>

(***************************************************************************)
(* filtered_df = df[(df['year'] >= year_range[0]) &                         *)
(*                  (df['year'] <= year_range[1])]                          *)
(***************************************************************************)
FilterData ==
    /\ pc = "filter"
    /\ filtered_df' = Filter(df, year_range)
    /\ pc' = "metrics"
    /\ UNCHANGED <<source, cache, widget, df, year_range, stats, correlation,
                   z, shown, error>>

(***************************************************************************)
(* Key Metrics: the four st.metric cards.  A card whose column the frame    *)
(* lacks raises KeyError; the cards before it are already on the page.      *)
(***************************************************************************)
KeyMetrics ==
    /\ pc = "metrics"
    /\ LET co2 == Col(filtered_df, "total_co2_emissions")
           diet == Col(filtered_df, "pct_unable_to_afford_diet")
           r == Corr(co2, diet)
       IN  IF "total_co2_emissions" \notin source.columns THEN
               /\ Raise("KeyError", "Key Metrics")
               /\ UNCHANGED <<stats, correlation, shown>>
           ELSE IF "pct_unable_to_afford_diet" \notin source.columns THEN
               /\ Raise("KeyError", "Key Metrics")
               /\ stats' = [stats EXCEPT !.meanCo2 = Mean(co2),
                                         !.co2PctChange = PctChangeMean(co2)]
               /\ shown' = [shown EXCEPT
                               !.avgCo2 = FormatMean1(Mean(co2)),
                               !.co2Delta = FormatFloat(PctChangeMean(co2))]
               /\ UNCHANGED correlation
           ELSE
               /\ stats' = [meanCo2 |-> Mean(co2),
                            meanDiet |-> Mean(diet),
                            co2PctChange |-> PctChangeMean(co2),
                            dietPctChange |-> PctChangeMean(diet),
                            count |-> Len(filtered_df)]
               /\ correlation' = r
               /\ shown' = [shown EXCEPT
                               !.avgCo2 = FormatMean1(Mean(co2)),
                               !.co2Delta = FormatFloat(PctChangeMean(co2)),
                               !.avgDiet = FormatMean1(Mean(diet)),
                               !.dietDelta = FormatFloat(PctChangeMean(diet)),
                               !.corrValue = FormatFloat(r),
                               !.corrLabel = IF IsNegative(r) THEN "Negative"
                                             ELSE "Positive",
                               !.dataPoints = Len(filtered_df)]
               /\ pc' = "trend"
               /\ UNCHANGED error
    /\ UNCHANGED <<source, cache, widget, df, year_range, filtered_df, z>>

(***************************************************************************)
(* Charts and the scatter plot's trend line: z = np.polyfit(co2, diet, 1),  *)
(* drawn with the legend f'Trend (r = {correlation:.2f})'.                   *)
(***************************************************************************)
TrendLine ==
    /\ pc = "trend"
    /\ LET fit == Polyfit(Col(filtered_df, "total_co2_emissions"),
                          Col(filtered_df, "pct_unable_to_afford_diet"))
       IN  IF fit.raises THEN
               /\ Raise("TypeError", "polyfit")
               /\ UNCHANGED <<z, shown>>
           ELSE
               /\ z' = fit
               /\ shown' = [shown EXCEPT !.legend = FormatFloat(correlation)]
               /\ pc' = "insights"
               /\ UNCHANGED error
    /\ UNCHANGED <<source, cache, widget, df, year_range, filtered_df, stats,
                   correlation>>

(***************************************************************************)
(* Raw data table and the Key Insights text, which formats correlation and  *)
(* the two means again.                                                     *)
(***************************************************************************)
Insights ==
    /\ pc = "insights"
    /\ shown' = [shown EXCEPT
                    !.insightCorr = FormatFloat(correlation),
                    !.insightCo2 = FormatMean1(
                        Mean(Col(filtered_df, "total_co2_emissions"))),
                    !.insightDiet = FormatMean1(
                        Mean(Col(filtered_df, "pct_unable_to_afford_diet")))]
    /\ pc' = "done"
    /\ UNCHANGED <<source, cache, widget, df, year_range, filtered_df, stats,
                   correlation, z, error>>

(***************************************************************************)
(* The user moves the slider: the widget keeps the new pair and the whole   *)
(* script runs again from its first line, with fresh script variables.      *)
(***************************************************************************)
SliderChange ==
    /\ pc \in {"done", "failed"}
    /\ widget.rendered
    /\ \E value \in SliderValues(widget.min, widget.max) \ {widget.value} :
           widget' = [widget EXCEPT !.value = value]
    /\ pc' = "load_data"
    /\ FreshRun
    /\ UNCHANGED <<source, cache>>

Next ==
    \/ LoadData
    \/ YearRange
    \/ FilterData
    \/ KeyMetrics
    \/ TrendLine
    \/ Insights
    \/ SliderChange

Spec == Init /\ [][Next]_vars

(***************************************************************************)
(* Positions of a run, for stating the properties.                          *)
(***************************************************************************)
\* The filter statement of this run has executed.
Filtered ==
    \/ pc \in {"metrics", "trend", "insights", "done"}
    \/ pc = "failed" /\ error.at \in {"Key Metrics", "polyfit"}

\* The Key Metrics block of this run has executed to its end.
MetricsDone ==
    \/ pc \in {"trend", "insights", "done"}
    \/ pc = "failed" /\ error.at = "polyfit"

\* The analysis (metrics and trend-line fit) has been attempted on the view.
Analysed ==
    \/ pc \in {"insights", "done"}
    \/ pc = "failed" /\ error.at = "polyfit"

RECURSIVE IsSubseq(_, _)
IsSubseq(s, t) ==
    IF s = <<>> THEN TRUE
    ELSE IF t = <<>> THEN FALSE
    ELSE IF s[1] = t[1] THEN IsSubseq(Tail(s), Tail(t))
    ELSE IsSubseq(s, Tail(t))

IsConstant(series) == \A i \in 1..Len(series) : series[i] = series[1]

ViewCo2 == Col(filtered_df, "total_co2_emissions")
ViewDiet == Col(filtered_df, "pct_unable_to_afford_diet")

\* The dataset as first loaded from the source.
Loaded == OrderByYear(source.rows)

(***************************************************************************)
(* C1: for a dataset sorted by year and a range within the dataset's years, *)
(* the filtered view holds exactly the records with minYear <= year <=      *)
(* maxYear: none outside, none inside omitted, in ascending year order, as  *)
(* an order-preserving subsequence of the dataset.                          *)
(***************************************************************************)
C1_FilterExact ==
    Filtered =>
        /\ \A i \in 1..Len(filtered_df) :
               /\ year_range[1] <= filtered_df[i].year
               /\ filtered_df[i].year <= year_range[2]
        /\ \A j \in 1..Len(df) :
               (year_range[1] <= df[j].year /\ df[j].year <= year_range[2])
                   => \E i \in 1..Len(filtered_df) : filtered_df[i] = df[j]
        /\ Len(filtered_df) =
               Cardinality({ j \in 1..Len(df) :
                   year_range[1] <= df[j].year /\ df[j].year <= year_range[2] })
        /\ \A i \in 1..Len(filtered_df), k \in 1..Len(filtered_df) :
               i < k => filtered_df[i].year < filtered_df[k].year
        /\ IsSubseq(filtered_df, df)

\* A view that leaves out records on both sides of the range.
C1_Witness ==
    /\ pc = "done"
    /\ Len(filtered_df) >= 1
    /\ df[1].year < year_range[1]
    /\ df[Len(df)].year > year_range[2]

(***************************************************************************)
(* C2 (as claimed): on an empty or single-record view the analysis reports  *)
(* percentage-change mean, correlation and trend line as undefined and      *)
(* raises no fault.                                                         *)
(***************************************************************************)
C2_DegenerateViewUndefinedNoFault ==
    (Analysed /\ Len(filtered_df) <= 1) =>
        /\ error.type = "none"
        /\ stats.co2PctChange.nan
        /\ stats.dietPctChange.nan
        /\ correlation.nan
        /\ z.nan

(***************************************************************************)
(* C3 (as claimed): on a view of at least two records with a constant       *)
(* series, correlation and trend line are both undefined, without a fault.  *)
(***************************************************************************)
C3_ConstantSeriesUndefined ==
    (Analysed /\ Len(filtered_df) >= 2
        /\ (IsConstant(ViewCo2) \/ IsConstant(ViewDiet))) =>
        /\ error.type = "none"
        /\ correlation.nan
        /\ z.nan

(***************************************************************************)
(* C4: the slider's pair and the script's year_range always satisfy         *)
(* minYear <= maxYear, both within the dataset's first and last year,       *)
(* at startup and after any sequence of range changes.                      *)
(***************************************************************************)
C4_RangeValid ==
    /\ widget.rendered =>
           /\ widget.min = MinYear(Loaded)
           /\ widget.max = MaxYear(Loaded)
           /\ widget.min <= widget.value[1]
           /\ widget.value[1] <= widget.value[2]
           /\ widget.value[2] <= widget.max
    /\ Filtered =>
           /\ MinYear(df) <= year_range[1]
           /\ year_range[1] <= year_range[2]
           /\ year_range[2] <= MaxYear(df)

\* A completed run on a range the user narrowed to a single inner year.
C4_Witness ==
    /\ pc = "done"
    /\ year_range[1] = year_range[2]
    /\ MinYear(df) < year_range[1]
    /\ year_range[2] < MaxYear(df)

(***************************************************************************)
(* C5: whatever ranges were selected before, the dataset is the one first   *)
(* loaded, and the view, the statistics, the correlation and the fit are    *)
(* those of that dataset and the current range alone.                       *)
(***************************************************************************)
C5_PureOfDatasetAndRange ==
    /\ cache.hit => cache.value = Loaded
    /\ pc \notin {"load_data", "failed"} => df = Loaded
    /\ Filtered => filtered_df = Filter(Loaded, year_range)
    /\ MetricsDone =>
           LET view == Filter(Loaded, year_range)
               co2 == Col(view, "total_co2_emissions")
               diet == Col(view, "pct_unable_to_afford_diet")
           IN  /\ stats = [meanCo2 |-> Mean(co2), meanDiet |-> Mean(diet),
                           co2PctChange |-> PctChangeMean(co2),
                           dietPctChange |-> PctChangeMean(diet),
                           count |-> Len(view)]
               /\ correlation = Corr(co2, diet)
    /\ pc \in {"insights", "done"} =>
           LET view == Filter(Loaded, year_range)
           IN  z = Polyfit(Col(view, "total_co2_emissions"),
                           Col(view, "pct_unable_to_afford_diet"))

\* A completed run after the user has narrowed the range.
C5_Witness ==
    /\ pc = "done"
    /\ cache.hit
    /\ Len(filtered_df) >= 2
    /\ Len(filtered_df) < Len(df)

(***************************************************************************)
(* C6 (as claimed): on an unreachable source, an empty table or a table     *)
(* lacking a required column, load itself raises, and no later step runs    *)
(* on a returned dataset.                                                   *)
(***************************************************************************)
C6_LoadRejectsBadSource ==
    (/\ pc # "load_data"
     /\ \/ source.db # "ok"
        \/ source.rows = {}
        \/ source.columns # Columns) =>
        /\ pc = "failed"
        /\ error.at = "load_data"

(***************************************************************************)
(* C7: with the full range (first year, last year of the dataset) the view  *)
(* is the whole dataset, unchanged; and the first run, where the slider     *)
(* has not been rendered before, takes the full range as its value.         *)
(***************************************************************************)
C7_FullRangeIsIdentity ==
    /\ [](Filtered /\ year_range = <<MinYear(df), MaxYear(df)>>
              => filtered_df = df)
    /\ [][(pc = "year_range" /\ ~widget.rendered /\ pc' = "filter")
              => year_range' = <<MinYear(df), MaxYear(df)>>]_vars

\* A completed run on the full range of a dataset of several records.
C7_Witness ==
    /\ pc = "done"
    /\ Len(df) >= 3
    /\ year_range = <<MinYear(df), MaxYear(df)>>
    /\ filtered_df = df

(***************************************************************************)
(* C8: on the seven-record sample 2017..2023 the range (2019, 2021) gives   *)
(* exactly the records of 2019, 2020 and 2021, count 3, mean CO2 441.37 and *)
(* mean diet-unaffordability 61.03 to two decimals; in general count is the *)
(* number of records of the view and each mean is the column's sum over     *)
(* the view divided by count.                                               *)
(***************************************************************************)
C8_SampleAndMeans ==
    /\ (MetricsDone /\ source.rows = SampleData /\ year_range = <<2019, 2021>>)
           => /\ filtered_df = << Rec(2019, 4641, 602), Rec(2020, 4341, 618),
                                  Rec(2021, 4259, 611) >>
              /\ stats.count = 3
              /\ FormatMean2(stats.meanCo2) =
                     [text |-> "number", digits |-> 44137]
              /\ FormatMean2(stats.meanDiet) =
                     [text |-> "number", digits |-> 6103]
    /\ MetricsDone
           => /\ stats.count = Len(filtered_df)
              /\ stats.meanCo2.n = stats.count
              /\ stats.meanDiet.n = stats.count
              /\ stats.meanCo2.sum = SeqSum(ViewCo2)
              /\ stats.meanDiet.sum = SeqSum(ViewDiet)
              /\ stats.meanCo2.nan = (stats.count = 0)
              /\ stats.meanDiet.nan = (stats.count = 0)

\* The sample, narrowed to 2019..2021, run to the end.
C8_Witness ==
    /\ pc = "done"
    /\ source.rows = SampleData
    /\ year_range = <<2019, 2021>>

(***************************************************************************)
(* C9: on a view whose points all lie on one line y = a*x + b with a > 0    *)
(* and at least two distinct x, the fit has slope a and intercept b and the *)
(* correlation is 1; for y = 2x + 3 on x = 1..5 the slope is 2 and the      *)
(* intercept 3.  The line is given by two points i, j of the view:          *)
(* a = dy / dx, b = y[i] - a * x[i].                                        *)
(***************************************************************************)
C9_ExactLinearRecovered ==
    /\ pc \in {"insights", "done"} =>
           \A i \in 1..Len(filtered_df), j \in 1..Len(filtered_df) :
               LET x == ViewCo2
                   y == ViewDiet
                   dx == x[j] - x[i]
                   dy == y[j] - y[i]
               IN  (/\ dx > 0
                    /\ dy > 0
                    /\ \A k \in 1..Len(filtered_df) :
                           (y[k] - y[i]) * dx = dy * (x[k] - x[i]))
                   => /\ ~z.nan
                      /\ z.rank = 2
                      /\ z.slopeNum * dx = z.slopeDen * dy
                      /\ (z.sy * dx - dy * z.sx) = z.n * (y[i] * dx - dy * x[i])
                      /\ ~correlation.nan
                      /\ correlation.cov > 0
                      /\ correlation.cov * correlation.cov =
                             correlation.varx * correlation.vary
    /\ (pc \in {"insights", "done"} /\ source.rows = LinearData
            /\ Len(filtered_df) >= 2)
           => /\ z.slopeNum = 2 * z.slopeDen
              /\ z.sy - 2 * z.sx = z.n * 30

\* The fit of all five points of y = 2x + 3.
C9_Witness ==
    /\ pc = "done"
    /\ source.rows = LinearData
    /\ source.columns = Columns
    /\ Len(filtered_df) = 5

(***************************************************************************)
(* C10 (as claimed): no text on the page is the formatting of an undefined  *)
(* statistic: neither percentage-change delta, nor the correlation metric,  *)
(* nor its sign label, nor the trend legend, nor the insights text.         *)
(***************************************************************************)
C10_NoNaNShown ==
    /\ shown.avgCo2.text # "nan"
    /\ shown.avgDiet.text # "nan"
    /\ shown.co2Delta # "nan"
    /\ shown.dietDelta # "nan"
    /\ shown.corrValue # "nan"
    /\ (MetricsDone /\ correlation.nan) => shown.corrLabel = "unset"
    /\ shown.legend # "nan"
    /\ shown.insightCorr # "nan"
    /\ shown.insightCo2.text # "nan"
    /\ shown.insightDiet.text # "nan"

====
